---- MODULE Spec2Model ----
(***************************************************************************)
(* Model of bdbc-batch-scripts / sanity-check:                             *)
(*   bdbc_nwb_tools.py    the extraction layer (load_from_file and readers)*)
(*   sanity_check_nwb.py  the reporting layer (text summary, file indexer, *)
(*                        batch plots)                                     *)
(*                                                                         *)
(* An NWB container is modelled by the set of data products it holds.      *)
(* A value read from it is a record [kind, none]: its kind ("None",        *)
(* "table", "array", "Metadata", "Timebases", "dict") and the set of its  *)
(* sub-fields that are None.                                               *)
(***************************************************************************)
EXTENDS Integers, Sequences, FiniteSets, TLC

VARIABLES
    pc,        \* position of the running operation
    loads,     \* number of load_from_file calls that returned so far
    opened,    \* handles of the containers that are open (NWBHDF5IO objects)
    args,      \* arguments of the running load_from_file / sanity_check_nwb
    todo,      \* extraction steps of load_from_file still to run
    data,      \* the dict `data` of load_from_file
    result,    \* outcome of the last finished call
    out,       \* what sanity_check_nwb wrote to the output text file
    log,       \* what stat_summary printed
    folder,    \* files found under the animal folder (unsorted)
    roiCols,   \* the 'roi_name' column of the containers: ROI table columns
    plt,       \* state of plot_summary_within_animal
    call,      \* state of the running plot_stats_across_sessions
    names,     \* file names handed to the sort by nwb_file_indexer
    sorted     \* outcome of sorted(..., key=nwb_file_indexer)

vars == <<pc, loads, opened, args, todo, data, result, out, log, folder,
          roiCols, plt, call, names, sorted>>

loadVars  == <<loads, opened, args, todo, data, result>>
checkVars == <<out>>
plotVars  == <<folder, roiCols, plt, call>>
indexVars == <<names, sorted>>

----------------------------------------------------------------------------
(* Bounds *)

\* how many products a container may lack
MaxMissing == 2
\* how many files a batch loads one after the other
MaxFiles == 2

----------------------------------------------------------------------------
(* Containers *)

SubjectScalars == {"subject_id", "age", "sex"}

Products ==
    {"subject", "date_of_birth"} \cup SubjectScalars \cup
    {"widefield_blue", "Humidity_raw", "body_video",
     "trials", "downsampled", "downsampled/trials", "behavior",
     "body_video_keypoints", "face_video_keypoints", "eye_video_keypoints",
     "pupil_tracking", "eye_position", "channels", "ophys"}

\* the sets of at most k elements of S
SubsetsUpTo(S, k) ==
    {{}} \cup {{f[i] : i \in 1..k} : f \in [1..k -> S]}

Containers == {Products \ m : m \in SubsetsUpTo(Products, MaxMissing)}

----------------------------------------------------------------------------
(* Values and outcomes *)

Val(kind, none) == [kind |-> kind, none |-> none]
NoneVal == Val("None", {})

Return(v) == [kind |-> "return", value |-> v]
Raise(exc) == [kind |-> "raise", exc |-> exc]
NoResult == [kind |-> "none"]

----------------------------------------------------------------------------
(* Record shapes *)

NWBData ==
    {"metadata", "timebase", "trials", "daq", "body_video_tracking",
     "face_video_tracking", "eye_video_tracking", "pupil_tracking", "rois",
     "roi_description"}

NWBData_resting ==
    {"metadata", "timebase", "daq", "body_video_tracking",
     "face_video_tracking", "eye_video_tracking", "pupil_tracking", "rois",
     "roi_description"}

NWBData_sensory ==
    {"metadata", "timebase", "trials", "rois", "roi_description"}

ShapeFields(shape) ==
    CASE shape = "NWBData" -> NWBData
      [] shape = "NWBData_resting" -> NWBData_resting
      [] shape = "NWBData_sensory" -> NWBData_sensory

----------------------------------------------------------------------------
(* Readers.  Each returns Return(value) or Raise(exception). *)

\* the Metadata field a subject attribute is copied to
MetadataField(p) == IF p = "subject_id" THEN p ELSE "subject_" \o p

\* nwbfile.subject.<x> raises when there is no subject; .strftime raises when
\* date_of_birth is None; the other subject attributes are copied as they are.
read_metadata(nwbfile) ==
    IF "subject" \notin nwbfile THEN Raise("AttributeError")
    ELSE IF "date_of_birth" \notin nwbfile THEN Raise("AttributeError")
    ELSE Return(Val("Metadata",
                    {MetadataField(p) : p \in SubjectScalars \ nwbfile}))

read_timebases(nwbfile, downsampled) ==
    IF "widefield_blue" \notin nwbfile THEN Raise("KeyError")
    ELSE IF downsampled THEN Return(Val("array", {}))
    ELSE IF "Humidity_raw" \notin nwbfile THEN Raise("KeyError")
    ELSE IF "body_video" \in nwbfile THEN Return(Val("Timebases", {}))
    ELSE Return(Val("Timebases", {"videos"}))

read_roi_dFF_missing_is_None(nwbfile) ==
    IF "ophys" \notin nwbfile THEN Return(NoneVal) ELSE Return(Val("table", {}))

read_roi_dFF(nwbfile) ==
    IF "ophys" \notin nwbfile THEN Raise("KeyError") ELSE Return(Val("table", {}))

read_trials(nwbfile, downsampled) ==
    IF "trials" \notin nwbfile THEN Return(NoneVal)
    ELSE IF downsampled
    THEN IF "downsampled" \notin nwbfile \/ "downsampled/trials" \notin nwbfile
         THEN Raise("KeyError")
         ELSE Return(Val("table", {}))
    ELSE Return(Val("table", {}))

\* called by load_from_file with isSensory left at its default, False
read_acquisition(nwbfile, downsampled, isSensory) ==
    IF downsampled /\ "downsampled" \notin nwbfile THEN Raise("KeyError")
    ELSE IF ~isSensory /\ "channels" \notin nwbfile THEN Raise("KeyError")
    ELSE Return(Val("table", {}))

read_video_tracking(nwbfile, view, downsampled) ==
    LET parent == IF downsampled THEN "downsampled" ELSE "behavior"
    IN  IF view \in {"body", "face", "eye"}
        THEN IF parent \notin nwbfile THEN Raise("KeyError")
             ELSE IF (view \o "_video_keypoints") \notin nwbfile
             THEN Return(NoneVal)
             ELSE Return(Val("table", {}))
        ELSE IF view = "pupil"
        THEN IF parent \notin nwbfile THEN Raise("KeyError")
             ELSE IF "pupil_tracking" \notin nwbfile THEN Return(NoneVal)
             ELSE IF "eye_position" \notin nwbfile THEN Raise("KeyError")
             ELSE Return(Val("table", {}))
        ELSE Raise("ValueError")

----------------------------------------------------------------------------
(* load_from_file, step by step *)

AllSteps ==
    <<"metadata", "timebase", "trials", "daq", "body", "face", "eye", "pupil",
      "rois">>

StepApplies(step, isResting, isSensory) ==
    CASE step = "trials" -> ~isResting
      [] step \in {"daq", "body", "face", "eye", "pupil"} -> ~isSensory
      [] OTHER -> TRUE

StepsFor(isResting, isSensory) ==
    SelectSeq(AllSteps, LAMBDA s : StepApplies(s, isResting, isSensory))

\* the reader a step calls
ReadOf(step, nwbfile, downsampled) ==
    CASE step = "metadata" -> read_metadata(nwbfile)
      [] step = "timebase" -> read_timebases(nwbfile, downsampled)
      [] step = "trials" -> read_trials(nwbfile, downsampled)
      [] step = "daq" -> read_acquisition(nwbfile, downsampled, FALSE)
      [] step \in {"body", "face", "eye", "pupil"} ->
            read_video_tracking(nwbfile, step, downsampled)
      [] step = "rois" -> read_roi_dFF(nwbfile)

\* the entries of `data` a step assigns
Assigned(step, v) ==
    CASE step \in {"metadata", "timebase", "trials", "daq"} -> (step :> v)
      [] step \in {"body", "face", "eye"} -> ((step \o "_video_tracking") :> v)
      [] step = "pupil" -> ("pupil_tracking" :> v)
      [] step = "rois" -> ("rois" :> v) @@ ("roi_description" :> Val("dict", {}))

\* `with ... as src`: the context manager closes the handle when an exception
\* leaves the block
LeakOnError(handles, h) == handles

ReleaseOnError(handles, h) == handles \ {h}

\* the namedtuple constructor: **data must name exactly the shape's fields
Construct(d, isResting, isSensory) ==
    LET shape == IF isResting THEN "NWBData_resting"
                 ELSE IF isSensory THEN "NWBData_sensory"
                 ELSE "NWBData"
    IN  IF DOMAIN d = ShapeFields(shape)
        THEN Return([shape |-> shape, fields |-> d])
        ELSE Raise("TypeError")

NoArgs == [handle |-> 0, nwbfile |-> {}, downsampled |-> TRUE,
           isResting |-> FALSE, isSensory |-> FALSE]

EmptyDict == [x \in {} |-> NoneVal]

\* line 207-209: open the container, read it, data = dict()
Open ==
    /\ pc = "idle"
    /\ loads < MaxFiles
    /\ \E c \in Containers, ds \in BOOLEAN, r \in BOOLEAN, s \in BOOLEAN :
          /\ args' = [handle |-> loads + 1, nwbfile |-> c, downsampled |-> ds,
                      isResting |-> r, isSensory |-> s]
          /\ todo' = StepsFor(r, s)
    /\ opened' = opened \cup {loads + 1}
    /\ data' = EmptyDict
    /\ result' = NoResult
    /\ pc' = "reading"
    /\ UNCHANGED <<loads, checkVars, log, plotVars, indexVars>>

\* one extraction step of lines 210-219
Read(step) ==
    /\ pc = "reading"
    /\ todo # <<>>
    /\ Head(todo) = step
    /\ LET r == ReadOf(step, args.nwbfile, args.downsampled)
       IN  IF r.kind = "raise"
           THEN /\ opened' = ReleaseOnError(opened, args.handle)
                /\ result' = r
                /\ pc' = "raised"
                /\ UNCHANGED <<todo, data>>
           ELSE /\ data' = Assigned(step, r.value) @@ data
                /\ todo' = Tail(todo)
                /\ UNCHANGED <<opened, result, pc>>
    /\ UNCHANGED <<loads, args, checkVars, log, plotVars, indexVars>>

ReadMetadata == Read("metadata")
ReadTimebases == Read("timebase")
ReadTrials == Read("trials")
ReadAcquisition == Read("daq")
ReadVideoTracking == \E view \in {"body", "face", "eye"} : Read(view)
ReadPupil == Read("pupil")
ReadRoi == Read("rois")

\* the end of the with block: the handle is closed
ExitWith ==
    /\ pc = "reading"
    /\ todo = <<>>
    /\ opened' = opened \ {args.handle}
    /\ pc' = "construct"
    /\ UNCHANGED <<loads, args, todo, data, result, checkVars, log, plotVars,
                   indexVars>>

\* lines 220-224
ReturnRecord ==
    /\ pc = "construct"
    /\ LET r == Construct(data, args.isResting, args.isSensory)
       IN  /\ result' = r
           /\ pc' = IF r.kind = "raise" THEN "raised" ELSE "returned"
           /\ loads' = IF r.kind = "raise" THEN loads ELSE loads + 1
    /\ UNCHANGED <<opened, args, todo, data, checkVars, log, plotVars, indexVars>>

\* a batch goes on to its next file (sanity_check_nwb.py, the loop of lines
\* 82-88): the locals of the call that returned are gone
NextSession ==
    /\ pc = "returned"
    /\ loads < MaxFiles
    /\ pc' = "idle"
    /\ args' = NoArgs
    /\ data' = EmptyDict
    /\ result' = NoResult
    /\ UNCHANGED <<loads, opened, todo, checkVars, log, plotVars, indexVars>>

\* load_from_file as one call
load_from_file(nwbfile, downsampled, isResting, isSensory) ==
    LET steps == StepsFor(isResting, isSensory)
        res == [i \in 1..Len(steps) |-> ReadOf(steps[i], nwbfile, downsampled)]
        bad == {i \in 1..Len(steps) : res[i].kind = "raise"}
        RECURSIVE Fill(_)
        Fill(i) == IF i = 0 THEN EmptyDict
                   ELSE Assigned(steps[i], res[i].value) @@ Fill(i - 1)
    IN  IF bad # {}
        THEN res[CHOOSE i \in bad : \A j \in bad : i <= j]
        ELSE Construct(Fill(Len(steps)), isResting, isSensory)

InitIdle ==
    /\ loads = 0
    /\ opened = {}
    /\ args = NoArgs
    /\ todo = <<>>
    /\ data = EmptyDict
    /\ result = NoResult
    /\ out = <<>>
    /\ log = <<>>
    /\ folder = {}
    /\ roiCols = <<>>
    /\ plt = <<>>
    /\ call = <<>>
    /\ names = <<>>
    /\ sorted = NoResult

InitLoad == pc = "idle" /\ InitIdle

NextLoad ==
    \/ Open
    \/ ReadMetadata
    \/ ReadTimebases
    \/ ReadTrials
    \/ ReadAcquisition
    \/ ReadVideoTracking
    \/ ReadPupil
    \/ ReadRoi
    \/ ExitWith
    \/ ReturnRecord
    \/ NextSession

SpecLoad == InitLoad /\ [][NextLoad]_vars

\* the step-by-step load and the one-call load agree
StepwiseAgrees ==
    pc \in {"returned", "raised"} =>
        result = load_from_file(args.nwbfile, args.downsampled,
                                args.isResting, args.isSensory)

----------------------------------------------------------------------------
(* Claims about load_from_file (SpecLoad) *)

Finished == pc \in {"returned", "raised"}
Missing == Products \ args.nwbfile

\* C1: the container is closed whenever a load_from_file call has ended, by a
\* return or by an exception of any extraction step; a handle is open only
\* while its own call reads, so a batch never has two containers open.
C1_ClosedOnEveryExit ==
    /\ Cardinality(opened) <= 1
    /\ pc \in {"idle", "construct", "returned", "raised"} => opened = {}
    /\ pc = "reading" => opened = {args.handle}

\* a later load of a batch raised partway, after some fields were extracted
C1_Witness ==
    /\ pc = "raised"
    /\ result.exc = "KeyError"
    /\ loads >= 1
    /\ DOMAIN data # {}
    /\ opened = {}

\* C2: on a container holding every product, each flag combination yields one
\* record, of the shape of the flags, whose fields are the fields extracted.
C2_OneRecordOfTheFlagsShape ==
    (Finished /\ Missing = {}) =>
        /\ result.kind = "return"
        /\ args.isResting /\ ~args.isSensory => result.value.shape = "NWBData_resting"
        /\ args.isSensory /\ ~args.isResting => result.value.shape = "NWBData_sensory"
        /\ ~args.isSensory /\ ~args.isResting => result.value.shape = "NWBData"
        /\ DOMAIN result.value.fields = ShapeFields(result.value.shape)
        /\ DOMAIN data = ShapeFields(result.value.shape)

\* what load_from_file cannot do without: the ROI product, the subject and its
\* date of birth, the imaging stream
Required == {"ophys", "subject", "date_of_birth", "widefield_blue"}

\* C3 (amended): a container lacking the ROI product, the subject, the
\* subject's date of birth or the widefield_blue stream makes load_from_file
\* raise, under every flag combination; a record is returned only when they
\* are all there, and a returned record has every field of its shape.  A
\* subject without id, age or sex is no error: the metadata holds None there.
C3_RequiredMissingRaises ==
    /\ pc = "raised" => result.kind = "raise"
    /\ (Finished /\ Missing \cap Required # {}) => result.kind = "raise"
    /\ result.kind = "return" =>
          /\ pc = "returned"
          /\ Missing \cap Required = {}
          /\ DOMAIN result.value.fields = ShapeFields(result.value.shape)
          /\ \A p \in SubjectScalars :
                p \in Missing <=>
                    MetadataField(p) \in result.value.fields["metadata"].none

\* the ROI product is missing and the load got as far as read_roi_dFF
C3_Witness ==
    /\ pc = "raised"
    /\ "ophys" \in Missing
    /\ todo = <<"rois">>
    /\ "metadata" \in DOMAIN data

\* C3 as stated: every subject field is required
C3_Original ==
    (Finished /\ Missing \cap (Required \cup SubjectScalars) # {}) =>
        result.kind = "raise"

OptionalProducts ==
    {"trials", "body_video_keypoints", "face_video_keypoints",
     "eye_video_keypoints", "pupil_tracking", "eye_position", "body_video"}

\* the record field an optional product feeds
FieldOf(p) ==
    CASE p = "trials" -> "trials"
      [] p = "body_video_keypoints" -> "body_video_tracking"
      [] p = "face_video_keypoints" -> "face_video_tracking"
      [] p = "eye_video_keypoints" -> "eye_video_tracking"
      [] p \in {"pupil_tracking", "eye_position"} -> "pupil_tracking"
      [] p = "body_video" -> "timebase"

\* C4: a container lacking only optional products loads without error, and the
\* field of each missing product is None (flags that select one shape).
C4_OptionalMissingIsNone ==
    (/\ Finished
     /\ Missing # {}
     /\ Missing \subseteq OptionalProducts
     /\ ~(args.isResting /\ args.isSensory)) =>
        /\ result.kind = "return"
        /\ \A p \in Missing :
              LET fields == result.value.fields
              IN  FieldOf(p) \in DOMAIN fields =>
                     IF p = "body_video"
                     THEN fields["timebase"].kind = "Timebases" =>
                             "videos" \in fields["timebase"].none
                     ELSE fields[FieldOf(p)] = NoneVal

----------------------------------------------------------------------------
(* stat_summary and sanity_check_nwb *)

\* number of left/right ROI pairs of the ROI table of the text summary
CheckPairs == 1

\* ROI names are pairs <<name, side>>: "<name>_l", "<name>_r"
RoiName(p, side) == <<p, side>>

\* all left columns, then all right columns
Blocked(n) ==
    [k \in 1..(2 * n) |-> IF k <= n THEN RoiName(k, "l") ELSE RoiName(k - n, "r")]

\* the columns of the table a field holds (the index of its summary)
Columns(df_name) ==
    CASE df_name = "rois" -> roiCols
      [] df_name = "daq" -> <<"reward", "state_lever", "tone", "state_task">>
      [] df_name = "pupil_tracking" -> <<"diameter", "center_x", "center_y">>
      [] OTHER -> <<"kpt_x", "kpt_y">>

\* returns the outcome and what it printed
stat_summary(session, df_name, nwb_path, verbose) ==
    IF df_name \notin DOMAIN session.fields
    THEN [outcome |-> Raise("AttributeError"), printed |-> <<>>]
    ELSE IF session.fields[df_name].kind = "None"
    THEN [outcome |-> Return([kind |-> "None", index |-> <<>>]),
          printed |-> IF verbose THEN <<[what |-> "no", df_name |-> df_name]>>
                      ELSE <<>>]
    ELSE [outcome |-> Return([kind |-> "summary", index |-> Columns(df_name)]),
          printed |-> IF verbose
                      THEN <<[what |-> "summary", df_name |-> df_name]>>
                      ELSE <<>>]

check_df_name_list(isSensory) ==
    IF isSensory THEN <<"rois">>
    ELSE <<"rois", "daq", "body_video_tracking", "face_video_tracking",
           "eye_video_tracking", "pupil_tracking">>

Header(df_name) == [line |-> "summary header", df_name |-> df_name]
Table(df_name) == [line |-> "table", df_name |-> df_name]

\* lines 21-41: load the session, choose the fields, open the output file
CheckLoad ==
    /\ pc = "idle"
    /\ \E c \in Containers, r \in BOOLEAN, s \in BOOLEAN :
          /\ args' = [handle |-> 1, nwbfile |-> c, downsampled |-> TRUE,
                      isResting |-> r, isSensory |-> s]
          /\ result' = load_from_file(c, TRUE, r, s)
          /\ todo' = check_df_name_list(s)
    /\ pc' = IF result'.kind = "raise" THEN "raised" ELSE "writing"
    /\ out' = <<>>
    /\ UNCHANGED <<loads, opened, data, log, plotVars, indexVars>>

\* lines 42-45: one pass of the loop over df_name_list
WriteBlock ==
    /\ pc = "writing"
    /\ todo # <<>>
    /\ LET df_name == Head(todo)
           r == stat_summary(result.value, df_name, args.handle, TRUE)
       IN  /\ log' = log \o r.printed
           /\ IF r.outcome.kind = "raise"
              THEN pc' = "raised" /\ UNCHANGED <<out, todo>>
              ELSE IF r.outcome.value.kind = "None"
              \* summary.to_string on None: AttributeError after the header
              THEN /\ out' = Append(out, Header(df_name))
                   /\ pc' = "raised"
                   /\ UNCHANGED todo
              ELSE /\ out' = out \o <<Header(df_name), Table(df_name)>>
                   /\ todo' = Tail(todo)
                   /\ pc' = pc
    /\ UNCHANGED <<loads, opened, args, data, result, plotVars, indexVars>>

\* the loop is over, the output file is closed
CheckDone ==
    /\ pc = "writing"
    /\ todo = <<>>
    /\ pc' = "done"
    /\ UNCHANGED <<loadVars, checkVars, log, plotVars, indexVars>>

InitCheck ==
    /\ pc = "idle"
    /\ loads = 0
    /\ opened = {}
    /\ args = NoArgs
    /\ todo = <<>>
    /\ data = EmptyDict
    /\ result = NoResult
    /\ out = <<>>
    /\ log = <<>>
    /\ folder = {}
    /\ roiCols = Blocked(CheckPairs)
    /\ plt = <<>>
    /\ call = <<>>
    /\ names = <<>>
    /\ sorted = NoResult

NextCheck == CheckLoad \/ WriteBlock \/ CheckDone

SpecCheck == InitCheck /\ [][NextCheck]_vars

----------------------------------------------------------------------------
(* nwb_file_indexer.  A file name is a sequence of tokens: single characters
   and the words of the convention; no token is a prefix of another. *)

\* how many files the sort is given
MaxNames == 2

type_indexer == <<"task", "resting-state", "sensory-stim">>
Types == {type_indexer[i] : i \in 1..3}

Digits == {"0", "1", "2"}
\* tokens made of characters of [a-zA-Z0-9-]
SubjectChars ==
    Digits \cup {"-", "m", "x", "day", "nwb"} \cup Types
\* tokens made of characters of [0-9-]
DateChars == Digits \cup {"-"}

At(s, i) == IF i \in 1..Len(s) THEN s[i] ELSE "<end>"

\* length of the longest run of tokens of class cls that starts at s[i]
RECURSIVE Run(_, _, _)
Run(s, i, cls) == IF At(s, i) \in cls THEN 1 + Run(s, i + 1, cls) ELSE 0

NoMatch == [ok |-> FALSE]

\* file_matcher.match: the pattern is anchored at the start only.  No class
\* holds "_", so each greedy group is the whole run up to the next "_".
file_matcher_match(s) ==
    LET n1 == Run(s, 1, SubjectChars)
        d == n1 + 2
        n2 == Run(s, d, DateChars)
        t == d + n2 + 1
        n4 == Run(s, t + 3, Digits)
    IN  IF n1 = 0 \/ At(s, n1 + 1) # "_" THEN NoMatch
        ELSE IF n2 = 0 \/ At(s, d + n2) # "_" THEN NoMatch
        ELSE IF At(s, t) \notin Types \/ At(s, t + 1) # "-" \/ At(s, t + 2) # "day"
        THEN NoMatch
        ELSE IF n4 = 0 THEN NoMatch
        ELSE [ok |-> TRUE,
              group1 |-> SubSeq(s, 1, n1),
              group2 |-> SubSeq(s, d, d + n2 - 1),
              group3 |-> s[t],
              group4 |-> SubSeq(s, t + 3, t + 2 + n4)]

\* Path.stem: the name without its last suffix
stem(name) ==
    LET dots == {i \in 1..Len(name) : name[i] = "."}
        i == CHOOSE k \in dots : \A j \in dots : j <= k
    IN  IF dots # {} /\ 1 < i /\ i < Len(name) THEN SubSeq(name, 1, i - 1)
        ELSE name

DigitValue(c) == CASE c = "0" -> 0 [] c = "1" -> 1 [] c = "2" -> 2

\* int(): base 10, leading zeros dropped
RECURSIVE int(_)
int(ds) ==
    IF ds = <<>> THEN 0
    ELSE 10 * int(SubSeq(ds, 1, Len(ds) - 1)) + DigitValue(ds[Len(ds)])

index(seq, x) == (CHOOSE i \in 1..Len(seq) : seq[i] = x) - 1

nwb_file_indexer(filepath) ==
    LET matches == file_matcher_match(stem(filepath))
    IN  IF ~matches.ok THEN Raise("ValueError")
        ELSE Return(<<matches.group1, matches.group2,
                      index(type_indexer, matches.group3),
                      int(matches.group4)>>)

\* order of the tokens as Python orders the strings they stand for
TokenRank(c) ==
    CASE c = "-" -> 0 [] c = "." -> 1 [] c = "0" -> 2 [] c = "1" -> 3
      [] c = "2" -> 4 [] c = "_" -> 5 [] c = "day" -> 6 [] c = "m" -> 7
      [] c = "nwb" -> 8 [] c = "resting-state" -> 9 [] c = "sensory-stim" -> 10
      [] c = "task" -> 11 [] c = "x" -> 12

\* str < str
RECURSIVE StrLess(_, _)
StrLess(a, b) ==
    IF b = <<>> THEN FALSE
    ELSE IF a = <<>> THEN TRUE
    ELSE IF Head(a) # Head(b) THEN TokenRank(Head(a)) < TokenRank(Head(b))
    ELSE StrLess(Tail(a), Tail(b))

\* tuple < tuple
KeyLess(k1, k2) ==
    IF k1[1] # k2[1] THEN StrLess(k1[1], k2[1])
    ELSE IF k1[2] # k2[2] THEN StrLess(k1[2], k2[2])
    ELSE IF k1[3] # k2[3] THEN k1[3] < k2[3]
    ELSE k1[4] < k2[4]

\* sorted(files, key=nwb_file_indexer): stable, raises what the key raises
RECURSIVE SortedPrefix(_, _)
SortedPrefix(files, n) ==
    IF n = 0 THEN <<>>
    ELSE LET before == SortedPrefix(files, n - 1)
             k == nwb_file_indexer(files[n]).value
             \* files[n] goes after every element that is not greater
             pos == Cardinality({j \in 1..Len(before) :
                       ~KeyLess(k, nwb_file_indexer(before[j]).value)})
         IN  SubSeq(before, 1, pos) \o <<files[n]>>
                 \o SubSeq(before, pos + 1, Len(before))

sorted_by_indexer(files) ==
    IF \E i \in 1..Len(files) : nwb_file_indexer(files[i]).kind = "raise"
    THEN Raise("ValueError")
    ELSE Return(SortedPrefix(files, Len(files)))

\* file names the sort is tried on: conforming ones and near misses
NameSet ==
    {subject \o <<"_">> \o date \o <<"_", type, "-", "day">> \o day \o tail
         \o <<".", "nwb">> :
        subject \in {<<"m">>, <<"x">>},
        date \in {<<"1">>, <<"2">>, <<"x">>},
        type \in Types \cup {"x"},
        day \in {<<>>, <<"1">>, <<"2">>, <<"1", "0">>},
        tail \in {<<>>, <<"x">>}}

\* rglob finds one more file
Discover ==
    /\ pc = "idle"
    /\ Len(names) < MaxNames
    /\ \E n \in NameSet : names' = Append(names, n)
    /\ UNCHANGED <<pc, loadVars, checkVars, log, plotVars, sorted>>

\* line 76
SortFiles ==
    /\ pc = "idle"
    /\ names # <<>>
    /\ sorted' = sorted_by_indexer(names)
    /\ pc' = "sorted"
    /\ UNCHANGED <<names, loadVars, checkVars, log, plotVars>>

InitIndex == pc = "idle" /\ InitIdle

NextIndex == Discover \/ SortFiles

SpecIndex == InitIndex /\ [][NextIndex]_vars

----------------------------------------------------------------------------
(* Claims about sanity_check_nwb (SpecCheck) *)

Blocks(fields) ==
    [k \in 1..(2 * Len(fields)) |->
        IF k % 2 = 1 THEN Header(fields[(k + 1) \div 2])
        ELSE Table(fields[k \div 2])]

\* C5: for a session that loads, sanity_check_nwb completes and the output
\* file holds, in list order, one header and one table for each field of the
\* list of the session type, also when some of those fields are None.
C5_OneBlockPerField ==
    (pc \in {"done", "raised"} /\ result.kind = "return") =>
        /\ pc = "done"
        /\ out = Blocks(check_df_name_list(args.isSensory))

----------------------------------------------------------------------------
(* Claims about nwb_file_indexer (SpecIndex) *)

\* positions of the underscores of a stem
Underscores(s) == {i \in 1..Len(s) : s[i] = "_"}

\* the three parts of a stem with two underscores
Part(s, k) ==
    LET u1 == CHOOSE i \in Underscores(s) : \A j \in Underscores(s) : i <= j
        u2 == CHOOSE i \in Underscores(s) : \A j \in Underscores(s) : j <= i
    IN  CASE k = 1 -> SubSeq(s, 1, u1 - 1)
          [] k = 2 -> SubSeq(s, u1 + 1, u2 - 1)
          [] k = 3 -> SubSeq(s, u2 + 1, Len(s))

AllIn(s, cls) == \A i \in 1..Len(s) : s[i] \in cls

\* the stem is <subject>_<date>_<type>-day<N> and nothing else
Conforms(name) ==
    LET s == stem(name)
    IN  /\ Cardinality(Underscores(s)) = 2
        /\ Part(s, 1) # <<>> /\ AllIn(Part(s, 1), SubjectChars)
        /\ Part(s, 2) # <<>> /\ AllIn(Part(s, 2), DateChars)
        /\ Len(Part(s, 3)) >= 4
        /\ Part(s, 3)[1] \in Types
        /\ SubSeq(Part(s, 3), 2, 3) = <<"-", "day">>
        /\ AllIn(SubSeq(Part(s, 3), 4, Len(Part(s, 3))), Digits)

\* the key the convention gives a conforming name
ConventionKey(name) ==
    LET s == stem(name)
        type == Part(s, 3)[1]
    IN  <<Part(s, 1), Part(s, 2),
          CASE type = "task" -> 0
            [] type = "resting-state" -> 1
            [] type = "sensory-stim" -> 2,
          int(SubSeq(Part(s, 3), 4, Len(Part(s, 3))))>>

\* C8: a conforming name yields (subject, date, rank, N), every other name
\* raises ValueError, and the sort orders conforming names by that key.
C8_KeyOrValueError ==
    pc = "sorted" =>
        /\ \A i \in 1..Len(names) :
              IF Conforms(names[i])
              THEN nwb_file_indexer(names[i]) = Return(ConventionKey(names[i]))
              ELSE nwb_file_indexer(names[i]) = Raise("ValueError")
        /\ (\A i \in 1..Len(names) : Conforms(names[i])) =>
              /\ sorted.kind = "return"
              /\ \A i \in 1..(Len(sorted.value) - 1) :
                    ~KeyLess(ConventionKey(sorted.value[i + 1]),
                             ConventionKey(sorted.value[i]))

----------------------------------------------------------------------------
(* plot_summary_within_animal and plot_stats_across_sessions *)

\* how many sessions an animal folder holds
MaxSessions == 3
\* how many left/right ROI pairs the ROI table holds
MaxPairs == 11
\* days of the sessions of a folder: day1 .. day<MaxDay>
MaxDay == 2

maxRow == 10

\* left and right column of each pair side by side
Interleaved(n) ==
    [k \in 1..(2 * n) |->
        IF k % 2 = 1 THEN RoiName((k + 1) \div 2, "l") ELSE RoiName(k \div 2, "r")]

\* all right columns, then all left columns
BlockedRightFirst(n) ==
    [k \in 1..(2 * n) |-> IF k <= n THEN RoiName(k, "r") ELSE RoiName(k - n, "l")]

DayDigit(d) == CASE d = 1 -> "1" [] d = 2 -> "2" [] OTHER -> "0"

\* m_1_<type>-day<d>.nwb
FileName(type, d) ==
    <<"m", "_", "1", "_", type, "-", "day", DayDigit(d), ".", "nwb">>

\* the files an animal folder can hold: a session may lack keypoints of the
\* body view and the pupil products
FolderFiles ==
    {[name |-> FileName(type, d), nwbfile |-> Products \ m] :
        type \in Types, d \in 1..MaxDay,
        m \in SUBSET {"body_video_keypoints", "pupil_tracking"}}

Folders ==
    {S \in SubsetsUpTo(FolderFiles, MaxSessions) :
        /\ S # {}
        /\ \A f \in S, g \in S : f.name = g.name => f = g}

\* the order rglob yields the files in
RECURSIVE rglob(_)
rglob(S) ==
    IF S = {} THEN <<>>
    ELSE LET f == CHOOSE g \in S : TRUE
         IN  <<f.name>> \o rglob(S \ {f})

\* 'resting' in name, 'sensory' in name: the tokens that hold the word
TokensWith(word) ==
    CASE word = "resting" -> {"resting-state"}
      [] word = "sensory" -> {"sensory-stim"}

Contains(name, word) == \E i \in 1..Len(name) : name[i] \in TokensWith(word)

plot_df_name_list ==
    <<"daq", "body_video_tracking", "face_video_tracking",
      "eye_video_tracking", "pupil_tracking", "rois">>

NoPlt == [nwb_files |-> <<>>, isSensorys |-> <<>>, sessions |-> <<>>,
          queue |-> <<>>]

NoCall == [df_name |-> "none", nwb_files |-> <<>>, sessions |-> <<>>,
           summarys |-> <<>>, rows |-> <<>>, nRow |-> 0, i |-> 0,
           fig |-> <<>>, saved |-> <<>>]

\* [x for x, k in zip(seq, keep) if k]
RECURSIVE Filter(_, _)
Filter(seq, keep) ==
    IF seq = <<>> THEN <<>>
    ELSE (IF Head(keep) THEN <<Head(seq)>> ELSE <<>>)
             \o Filter(Tail(seq), Tail(keep))

\* lines 77-88: classify each file by its name and load it
load_sessions(files, nwb_files) ==
    [i \in 1..Len(nwb_files) |->
        load_from_file((CHOOSE f \in files : f.name = nwb_files[i]).nwbfile,
                       TRUE,
                       Contains(nwb_files[i], "resting"),
                       Contains(nwb_files[i], "sensory"))]

\* the exception that leaves a loop over calls: the first one raised
FirstRaise(outcomes) ==
    LET bad == {i \in 1..Len(outcomes) : outcomes[i].kind = "raise"}
    IN  IF bad = {} THEN NoResult
        ELSE outcomes[CHOOSE i \in bad : \A j \in bad : i <= j]

\* lines 72-95: find and sort the files, load every session
LoadSessions ==
    /\ pc = "idle"
    /\ LET order == sorted_by_indexer(rglob(folder))
           loaded == load_sessions(folder, order.value)
       IN  IF order.kind = "raise"
           THEN /\ result' = order
                /\ pc' = "raised"
                /\ UNCHANGED plt
           ELSE IF FirstRaise(loaded).kind = "raise"
           THEN /\ result' = FirstRaise(loaded)
                /\ pc' = "raised"
                /\ UNCHANGED plt
           ELSE /\ plt' = [nwb_files |-> order.value,
                           isSensorys |-> [i \in 1..Len(loaded) |->
                               Contains(order.value[i], "sensory")],
                           sessions |-> [i \in 1..Len(loaded) |-> loaded[i].value],
                           queue |-> plot_df_name_list]
                /\ pc' = "plotting"
                /\ UNCHANGED result
    /\ UNCHANGED <<loads, opened, args, todo, data, checkVars, log, folder,
                   roiCols, call, indexVars>>

\* x-positions of the points of a non-ROI series: enumerate(summarys, start=1)
rowidxx(summarys) == [k \in 1..Len(summarys) |-> k]

\* lines 117-124: the summaries of the sessions that have the field, each
\* with the file it comes from
collect_summarys(nwb_files, sessions, df_name) ==
    LET got == [i \in 1..Len(nwb_files) |->
                   stat_summary(sessions[i], df_name, "None", FALSE)]
    IN  [raised |-> \E i \in 1..Len(nwb_files) : got[i].outcome.kind = "raise",
         printed |-> Filter([i \in 1..Len(nwb_files) |->
                                [what |-> "no", df_name |-> df_name]],
                            [i \in 1..Len(nwb_files) |-> got[i].printed # <<>>]),
         summarys |-> Filter([i \in 1..Len(nwb_files) |->
                                 [file |-> nwb_files[i],
                                  index |-> IF got[i].outcome.kind = "raise"
                                            THEN <<>>
                                            ELSE got[i].outcome.value.index]],
                             [i \in 1..Len(nwb_files) |->
                                 got[i].outcome.kind = "return"
                                     /\ got[i].outcome.value.kind # "None"])]

\* lines 115-134: collect the summaries, fix rows and nRow
enter_plot_stats(nwb_files, sessions, df_name) ==
    LET c == collect_summarys(nwb_files, sessions, df_name)
        entered == [df_name |-> df_name, nwb_files |-> nwb_files,
                    sessions |-> sessions, summarys |-> c.summarys,
                    rows |-> <<>>, nRow |-> 0, i |-> 0, fig |-> <<>>,
                    saved |-> <<>>]
    IN  IF c.raised
        THEN /\ result' = Raise("AttributeError")
             /\ pc' = "raised"
             /\ call' = entered
             /\ UNCHANGED log
        ELSE /\ log' = log \o c.printed
             /\ IF c.summarys = <<>>
                \* rows is still None: len(rows) raises
                THEN /\ result' = Raise("TypeError")
                     /\ pc' = "raised"
                     /\ call' = entered
                ELSE /\ call' = [entered EXCEPT
                            !.rows = c.summarys[1].index,
                            !.nRow = IF df_name = "rois"
                                     THEN Len(c.summarys[1].index) \div 2
                                     ELSE Len(c.summarys[1].index)]
                     /\ pc' = "rows"
                     /\ UNCHANGED result

\* which sessions a field is plotted for: sensory data is omitted but for rois
keep_for(df_name, isSensorys) ==
    [i \in 1..Len(isSensorys) |-> df_name = "rois" \/ ~isSensorys[i]]

\* lines 98-134: choose the lists for the next field and enter
\* plot_stats_across_sessions
CallPlot ==
    /\ pc = "plotting"
    /\ plt.queue # <<>>
    /\ enter_plot_stats(
          Filter(plt.nwb_files, keep_for(Head(plt.queue), plt.isSensorys)),
          Filter(plt.sessions, keep_for(Head(plt.queue), plt.isSensorys)),
          Head(plt.queue))
    /\ UNCHANGED <<loads, opened, args, todo, data, checkVars, folder, roiCols,
                   plt, indexVars>>

\* the row-panel of pass i (from 0) of the loop of line 136
Panel(c) ==
    LET n == Len(c.summarys)
        row == c.rows[c.i + 1]
    IN  IF c.df_name = "rois"
        THEN [row_name |-> row[1], i |-> c.i,
              xs |-> [k \in 1..n |-> k - 1],
              files |-> [k \in 1..n |-> c.summarys[k].file]]
        ELSE [row_name |-> row, i |-> c.i,
              xs |-> rowidxx(c.summarys),
              files |-> [k \in 1..n |-> c.summarys[k].file]]

\* df.loc["<row_name>_l"], df.loc["<row_name>_r"] find their rows
RowsFound(c) ==
    c.df_name = "rois" =>
        \A k \in 1..Len(c.summarys), side \in {"l", "r"} :
            \E j \in 1..Len(c.summarys[k].index) :
                c.summarys[k].index[j] = RoiName(c.rows[c.i + 1][1], side)

\* lines 136-204: one pass of the loop over the row-panels
PlotRow ==
    /\ pc = "rows"
    /\ call.i < call.nRow
    /\ IF ~RowsFound(call)
       THEN /\ result' = Raise("KeyError")
            /\ pc' = "raised"
            /\ UNCHANGED call
       ELSE LET fig == Append(call.fig, Panel(call))
                i == call.i
            IN  /\ IF i % maxRow = maxRow - 1 \/ i = call.nRow - 1
                   THEN call' = [call EXCEPT
                           !.saved = Append(@, [page |-> (i \div maxRow) + 1,
                                                panels |-> fig,
                                                legend |-> call.nwb_files]),
                           !.fig = <<>>,
                           !.i = i + 1]
                   ELSE call' = [call EXCEPT !.fig = fig, !.i = i + 1]
                /\ UNCHANGED <<result, pc>>
    /\ UNCHANGED <<loads, opened, args, todo, data, checkVars, log, folder,
                   roiCols, plt, indexVars>>

\* line 205, and back to the loop of line 98
EndPlot ==
    /\ pc = "rows"
    /\ call.i = call.nRow
    /\ plt' = [plt EXCEPT !.queue = Tail(@)]
    /\ pc' = IF Tail(plt.queue) = <<>> THEN "done" ELSE "plotting"
    /\ UNCHANGED <<loadVars, checkVars, log, folder, roiCols, call, indexVars>>

InitPlotCommon ==
    /\ pc = "idle"
    /\ loads = 0
    /\ opened = {}
    /\ args = NoArgs
    /\ todo = <<>>
    /\ data = EmptyDict
    /\ result = NoResult
    /\ out = <<>>
    /\ log = <<>>
    /\ plt = NoPlt
    /\ call = NoCall
    /\ names = <<>>
    /\ sorted = NoResult

\* an animal folder of up to MaxSessions sessions, two ROI pairs
InitPlot ==
    /\ InitPlotCommon
    /\ folder \in Folders
    /\ roiCols \in {Blocked(2), Interleaved(2)}

NextPlot == LoadSessions \/ CallPlot \/ PlotRow \/ EndPlot

SpecPlot == InitPlot /\ [][NextPlot]_vars

\* one or two complete task sessions, ROI tables of every layout
InitRoi ==
    /\ InitPlotCommon
    /\ \E k \in 1..MaxDay :
          folder = {[name |-> FileName("task", d), nwbfile |-> Products] :
                       d \in 1..k}
    /\ \E n \in 1..MaxPairs :
          roiCols \in {Blocked(n), Interleaved(n), BlockedRightFirst(n)}

SpecRoi == InitRoi /\ [][NextPlot]_vars

----------------------------------------------------------------------------
(* Claims about the batch plots (SpecPlot, SpecRoi) *)

InCall == call.df_name # "none"

\* positions, in the lists of the running call, of the sessions whose field
\* is None
Lacking ==
    {i \in 1..Len(call.nwb_files) :
        /\ call.df_name \in DOMAIN call.sessions[i].fields
        /\ call.sessions[i].fields[call.df_name].kind = "None"}

\* every row-panel drawn so far by the running call
PanelsDrawn ==
    {call.fig[j] : j \in 1..Len(call.fig)} \cup
    UNION {{call.saved[k].panels[j] : j \in 1..Len(call.saved[k].panels)} :
              k \in 1..Len(call.saved)}

\* C6: when some or all of the sessions handed to plot_stats_across_sessions
\* lack the field, the call does not raise and those sessions contribute no
\* point to any series.  (That the missing field is logged is
\* C6_MissingFieldLogged.)
C6_MissingFieldNotFatal ==
    (InCall /\ Lacking # {}) =>
        /\ pc # "raised"
        /\ \A panel \in PanelsDrawn, i \in Lacking :
              \A k \in 1..Len(panel.files) : panel.files[k] # call.nwb_files[i]

\* C6, the logging half: a field that is None is reported
C6_MissingFieldLogged ==
    (InCall /\ Lacking # {}) =>
        \E j \in 1..Len(log) : log[j] = [what |-> "no", df_name |-> call.df_name]

\* the file is a sensory-stim session by its name
IsSensoryStim(name) ==
    /\ nwb_file_indexer(name).kind = "return"
    /\ nwb_file_indexer(name).value[3] = index(type_indexer, "sensory-stim")

\* C7: no non-ROI plot is handed a sensory-stim session, the two lists handed
\* to plot_stats_across_sessions pair each file with its own session, no
\* field is read that a session's shape lacks, and when
\* plot_summary_within_animal has ended every sensory-stim session of the
\* folder is in every panel and legend of the ROI plot.
C7_SensoryOnlyInRoiPlot ==
    /\ (InCall /\ call.df_name # "rois") =>
          \A i \in 1..Len(call.nwb_files) : ~IsSensoryStim(call.nwb_files[i])
    /\ InCall =>
          /\ Len(call.nwb_files) = Len(call.sessions)
          /\ \A i \in 1..Len(call.nwb_files) :
                \E j \in 1..Len(plt.nwb_files) :
                    /\ plt.nwb_files[j] = call.nwb_files[i]
                    /\ plt.sessions[j] = call.sessions[i]
    /\ pc = "raised" => result # Raise("AttributeError")
    /\ pc \in {"done", "raised"} =>
          \A f \in folder :
              IsSensoryStim(f.name) =>
                  /\ call.df_name = "rois"
                  /\ call.saved # <<>>
                  /\ \A panel \in PanelsDrawn :
                        \E k \in 1..Len(panel.files) : panel.files[k] = f.name

\* C9: in a non-ROI plot every point sits at the x-position that is the index
\* of its session in the list of files handed in, the index the legend
\* (enumerate(nwb_files), from 0) lists its file under.
C9_PointAtOriginalIndex ==
    (InCall /\ call.df_name # "rois") =>
        \A panel \in PanelsDrawn : \A k \in 1..Len(panel.xs) :
            /\ panel.xs[k] \in 0..(Len(call.nwb_files) - 1)
            /\ call.nwb_files[panel.xs[k] + 1] = panel.files[k]

\* C10: when the ROI plot is done every pair <name>_l / <name>_r of the ROI
\* table has exactly one row-panel, whatever the order of the columns; a page
\* holds at most maxRow row-panels and page k holds passes with i \div 10 + 1 = k.
C10_OnePanelPerPair ==
    (pc = "done" /\ call.df_name = "rois") =>
        /\ \A p \in 1..(Len(roiCols) \div 2) :
              Cardinality({panel \in PanelsDrawn : panel.row_name = p}) = 1
        /\ call.fig = <<>>
        /\ \A k \in 1..Len(call.saved) :
              /\ Len(call.saved[k].panels) <= maxRow
              /\ call.saved[k].page = k
              /\ \A j \in 1..Len(call.saved[k].panels) :
                    (call.saved[k].panels[j].i \div maxRow) + 1 = k

====
